---- MODULE Spec2Model ----
(***************************************************************************)
(* Model of the detection / alignment / lag-correlation core of            *)
(* EV_charging_forensics:                                                  *)
(*   scripts/analysis/task1_detect_attack_starts.py                        *)
(*   scripts/analysis/task2_normalize_relative_time.py                     *)
(*   scripts/analysis/task3_align_multilayer.py                            *)
(*   scripts/analysis/task5_time_lagged_correlation.py                     *)
(*   scripts/additional_experiments/taskA1_multiple_incident_analysis.py   *)
(*   scripts/additional_experiments/taskA1_multiple_incident_analysis_v2.py*)
(*   scripts/reconstruction/force_timeline_generation.py (host timeline)   *)
(*                                                                         *)
(* Numbers.  Series values are small non-negative integers and a NaN cell  *)
(* is the integer -1, which is no value.  A Pearson coefficient is kept    *)
(* exactly as the pair (num, den) standing for num / sqrt(den), with       *)
(* num = n*Sxy - Sx*Sy and den = (n*Sxx - Sx^2) * (n*Syy - Sy^2); den = 0  *)
(* is the NaN coefficient.  Means are exact rationals <<p, q>>, q > 0, in  *)
(* lowest terms, and <<0, 0>> is the NaN mean.                             *)
(* Times of task2/task3 are counted in half seconds so that the window     *)
(* borders t - 2.5 and t + 2.5 are integers.                               *)
(* The rows given to the attack-start detectors hold plain integers (no    *)
(* NaN) at times in whole seconds.                                         *)
(***************************************************************************)
EXTENDS Integers, Sequences, FiniteSets, TLC

(***************************************************************************)
(* Bounds of the model                                                     *)
(***************************************************************************)
\* last row index of the aligned CSV read by task5 (rows 0 .. MaxIdx)
MaxIdx == 3
\* the lag scans run over -MaxLag .. MaxLag
MaxLag == 2
\* number of per-second points of the signals given to taskA1 v1 / v2
A1Len == 10
\* last second of the relative-time range of task2 and task3 (0 .. MaxT)
MaxT == 6
\* largest number of rows of a normalized timeline given to task3 alone
MaxRows == 2
\* largest number of raw samples of a layer given to task2
MaxRaw == 2
\* seconds of a per-second candidate series of the detectors
DetLen == 12
\* rows of a sparse candidate series of the detectors
MaxDet == 3
\* largest number of raw samples of the layer in a chained pipeline run
RunRows == 1
\* number of incidents in the list of taskA1
MaxInc == 2
\* the DoS rows of the forced host timeline lie in 0 .. UnitSpan seconds
UnitSpan == 3

NaN == -1
NotRun == [status |-> "not run"]
None == [status |-> "None"]

Abs(x) == IF x < 0 THEN -x ELSE x
Min(a, b) == IF a <= b THEN a ELSE b
Max(a, b) == IF a >= b THEN a ELSE b

\* a cell of a per-second series: a value or NaN (no data)
Cells == {0, 1, NaN}
SeriesSet == [1..(MaxIdx + 1) -> Cells]

\* rectangular signals: level lo outside the seconds a+1 .. b, hi inside
Pulse(n, a, b, lo, hi) == [i \in 1..n |-> IF a < i /\ i <= b THEN hi ELSE lo]
PulseSet(n) ==
    {Pulse(n, a, b, lo, hi) : a \in 0..n, b \in 0..n, lo \in {0, 1}, hi \in {0, 1}}

(***************************************************************************)
(* Python / numpy primitives used by the correlators                       *)
(***************************************************************************)
\* s[:k]
PySliceTo(s, k) ==
    IF k >= 0 THEN SubSeq(s, 1, Min(k, Len(s)))
    ELSE SubSeq(s, 1, Max(0, Len(s) + k))

\* s[k:]
PySliceFrom(s, k) ==
    IF k >= 0 THEN SubSeq(s, Min(k, Len(s)) + 1, Len(s))
    ELSE SubSeq(s, Max(0, Len(s) + k) + 1, Len(s))

\* mutant of ValidMask: a position is kept when one of the two cells holds a value
ValidMaskEither(a, b) == {i \in 1..Len(a) : a[i] /= NaN \/ b[i] /= NaN}

\* ~(np.isnan(a) | np.isnan(b)) as the set of positions kept
ValidMask(a, b) == {i \in 1..Len(a) : a[i] /= NaN /\ b[i] /= NaN}

\* the sum of the cells of vals at the positions in S
RECURSIVE SumAt(_, _)
SumAt(vals, S) ==
    IF S = {} THEN 0
    ELSE LET i == CHOOSE j \in S : TRUE
         IN vals[i] + SumAt(vals, S \ {i})

RZero == [num |-> 0, den |-> 1]
RNaN == [num |-> 0, den |-> 0]

\* Pearson product-moment coefficient over the positions in M; NaN when one
\* of the two inputs is constant (the denominator vanishes)
PearsonR(a, b, M) ==
    LET n   == Cardinality(M)
        Sx  == SumAt(a, M)
        Sy  == SumAt(b, M)
        Sxy == SumAt([i \in M |-> a[i] * b[i]], M)
        Sxx == SumAt([i \in M |-> a[i] * a[i]], M)
        Syy == SumAt([i \in M |-> b[i] * b[i]], M)
        dx  == n * Sxx - Sx * Sx
        dy  == n * Syy - Sy * Sy
        num == n * Sxy - Sx * Sy
    IN IF dx = 0 \/ dy = 0 THEN RNaN
       ELSE IF num = 0 THEN RZero
       ELSE [num |-> num, den |-> dx * dy]

\* abs(r1) >= abs(r2), abs(r1) > abs(r2), abs(r) = 1
AbsGeq(r1, r2) == r1.num * r1.num * r2.den >= r2.num * r2.num * r1.den
AbsGt(r1, r2) == r1.num * r1.num * r2.den > r2.num * r2.num * r1.den
AbsIsOne(r) == r.num * r.num = r.den
\* r1 > r2 (signed)
SgnSq(r) == IF r.num < 0 THEN -(r.num * r.num) ELSE r.num * r.num
RGt(r1, r2) == SgnSq(r1) * r2.den > SgnSq(r2) * r1.den
IsOne(r) == r.num > 0 /\ AbsIsOne(r)
IsZero(r) == r.num = 0

\* two-tailed p-value of stats.pearsonr, kept symbolically: exactly 1 when
\* r = 0, exactly 0 when |r| = 1, otherwise the t-distribution tail of (r, n)
POne == [kind |-> "one", num |-> 0, den |-> 1, n |-> 0]
PNaN == [kind |-> "nan", num |-> 0, den |-> 0, n |-> 0]
PearsonP(r, n) ==
    IF r = RNaN THEN PNaN
    ELSE IF IsZero(r) THEN POne
    ELSE IF AbsIsOne(r) THEN [kind |-> "zero", num |-> 0, den |-> 1, n |-> 0]
    ELSE [kind |-> "tail", num |-> r.num * r.num, den |-> r.den, n |-> n]

\* max(seq, key = lambda x: abs(x['r'])): the first entry no later entry
\* strictly beats
RECURSIVE PyMaxAbsFrom(_, _, _)
PyMaxAbsFrom(seq, i, best) ==
    IF i > Len(seq) THEN best
    ELSE PyMaxAbsFrom(seq, i + 1, IF AbsGt(seq[i].r, best.r) THEN seq[i] ELSE best)

PyMaxAbs(seq) == PyMaxAbsFrom(seq, 2, seq[1])

\* max(seq, key = lambda x: x[1]): the same with the signed coefficient
RECURSIVE PyMaxSignedFrom(_, _, _)
PyMaxSignedFrom(seq, i, best) ==
    IF i > Len(seq) THEN best
    ELSE PyMaxSignedFrom(seq, i + 1, IF RGt(seq[i].r, best.r) THEN seq[i] ELSE best)

PyMaxSigned(seq) == PyMaxSignedFrom(seq, 2, seq[1])

(***************************************************************************)
(* task5_time_lagged_correlation.py                                        *)
(***************************************************************************)
LAG_MIN == -MaxLag
LAG_MAX == MaxLag
\* mutant of MIN_VALID: the void test written as < 2
MinValidTwo == 3 - 1
MIN_VALID == 3

LayerPairs == {<<"network", "host">>, <<"host", "power">>, <<"network", "power">>}

Upper(layer) ==
    CASE layer = "network" -> "NETWORK"
      [] layer = "host" -> "HOST"
      [] layer = "power" -> "POWER"

\* mutant of interpret_lag: the two branches exchanged
InterpretExchanged(lag, l1, l2) ==
    IF lag > 0 THEN <<Upper(l1), "leads", Upper(l2), "by", Abs(lag), "seconds">>
    ELSE IF lag < 0 THEN <<Upper(l2), "leads", Upper(l1), "by", Abs(lag), "seconds">>
    ELSE <<Upper(l1), "and", Upper(l2), "are synchronous (no lag)">>

\* the label, kept as the tuple of the parts the f-string prints
interpret_lag(lag, l1, l2) ==
    IF lag < 0 THEN <<Upper(l1), "leads", Upper(l2), "by", Abs(lag), "seconds">>
    ELSE IF lag > 0 THEN <<Upper(l2), "leads", Upper(l1), "by", lag, "seconds">>
    ELSE <<Upper(l1), "and", Upper(l2), "are synchronous (no lag)">>

\* the two slices compared at one lag
Shift1(a, lag) ==
    IF lag < 0 THEN PySliceTo(a, lag)
    ELSE IF lag > 0 THEN PySliceFrom(a, lag)
    ELSE a

\* mutant of Shift2: the second slice copied from the first
Shift2Copied(b, lag) == Shift1(b, lag)

Shift2(b, lag) ==
    IF lag < 0 THEN PySliceFrom(b, -lag)
    ELSE IF lag > 0 THEN PySliceTo(b, -lag)
    ELSE b

\* n_samples written into a table entry
EntryCount(mask) == Cardinality(mask)

\* mutant of LagEntry: no void test, the coefficient of one or two pairs is kept
LagEntryNoVoid(a, b, lag) ==
    LET x == Shift1(a, lag)
        y == Shift2(b, lag)
        valid_mask == ValidMask(x, y)
        n == Cardinality(valid_mask)
        r == PearsonR(x, y, valid_mask)
        p == PearsonP(r, n)
    IN [lag |-> lag,
        r |-> IF r /= RNaN THEN r ELSE RZero,
        p_value |-> IF p /= PNaN THEN p ELSE POne,
        n_samples |-> EntryCount(valid_mask)]

\* one iteration of the scan: the table entry appended for lag
LagEntry(a, b, lag) ==
    LET x == Shift1(a, lag)
        y == Shift2(b, lag)
        valid_mask == ValidMask(x, y)
        n == Cardinality(valid_mask)
    IN IF n < MIN_VALID
       THEN [lag |-> lag, r |-> RZero, p_value |-> POne,
             n_samples |-> EntryCount(valid_mask)]
       ELSE LET r == PearsonR(x, y, valid_mask)
                p == PearsonP(r, n)
            IN [lag |-> lag,
                r |-> IF r /= RNaN THEN r ELSE RZero,
                p_value |-> IF p /= PNaN THEN p ELSE POne,
                n_samples |-> EntryCount(valid_mask)]

\* mutant of LagTable: the scan starts at lag 0, negative lags are dropped
LagTableFromZero(a, b) == [k \in 1..(LAG_MAX + 1) |-> LagEntry(a, b, k - 1)]

\* for lag in range(LAG_MIN, LAG_MAX + 1): ... append
LagTable(a, b) == [k \in 1..(LAG_MAX - LAG_MIN + 1) |-> LagEntry(a, b, LAG_MIN + k - 1)]

\* optimal = max(corr, key = lambda x: abs(x['r']))
Optimal(table) == PyMaxAbs(table)

\* mutant of PairResult: the magnitude of the optimal coefficient is reported
PairResultAbsR(a, b, l1, l2) ==
    LET table == LagTable(a, b)
        optimal == Optimal(table)
    IN [lag_correlations |-> table,
        optimal_lag |-> optimal.lag,
        optimal_r |-> [num |-> Abs(optimal.r.num), den |-> optimal.r.den],
        optimal_p |-> optimal.p_value,
        interpretation |-> interpret_lag(optimal.lag, l1, l2)]

\* correlations[pair] of time_lagged_correlation
PairResult(a, b, l1, l2) ==
    LET table == LagTable(a, b)
        optimal == Optimal(table)
    IN [lag_correlations |-> table,
        optimal_lag |-> optimal.lag,
        optimal_r |-> optimal.r,
        optimal_p |-> optimal.p_value,
        interpretation |-> interpret_lag(optimal.lag, l1, l2)]

(***************************************************************************)
(* taskA1_multiple_incident_analysis.py: calculate_network_host_lag, from  *)
(* the two 0..60 s windows on                                              *)
(***************************************************************************)
max_lag_v1 == MaxLag
V1_MIN_MERGED == 5

\* host_shifted: the host window re-keyed to time_from_attack - lag
HostShiftedV1(host, lag) ==
    [t \in 1..Len(host) |-> IF t + lag \in 1..Len(host) THEN host[t + lag] ELSE NaN]

\* pd.merge(network_window, host_shifted, on = time_from_attack, how = inner):
\* the seconds present on both sides
MergedV1(net, host, lag) == ValidMask(net, HostShiftedV1(host, lag))

\* correlations[lag]: the correlation of the merged rows, NaN when 5 or
\* fewer rows merge
CorrV1(net, host, lag) ==
    LET merged == MergedV1(net, host, lag)
    IN IF Cardinality(merged) > V1_MIN_MERGED
       THEN PearsonR(net, HostShiftedV1(host, lag), merged)
       ELSE RNaN

LagsV1 == [k \in 1..(2 * max_lag_v1 + 1) |-> k - 1 - max_lag_v1]

RECURSIVE DropNaN(_, _)
DropNaN(seq, i) ==
    IF i > Len(seq) THEN <<>>
    ELSE IF seq[i].r = RNaN THEN DropNaN(seq, i + 1)
    ELSE <<seq[i]>> \o DropNaN(seq, i + 1)

\* valid_corrs = [(lag, corr) ... if not np.isnan(corr)]
ValidCorrsV1(net, host) ==
    DropNaN([k \in 1..Len(LagsV1) |->
                [lag |-> LagsV1[k], r |-> CorrV1(net, host, LagsV1[k])]], 1)

\* max(valid_corrs, key = lambda x: x[1])
BestV1(valid_corrs) == PyMaxSigned(valid_corrs)

ResultV1(net, host) ==
    LET valid_corrs == ValidCorrsV1(net, host)
    IN IF Len(valid_corrs) = 0 THEN None
       ELSE LET best == BestV1(valid_corrs)
                merged_best == MergedV1(net, host, best.lag)
                n == Cardinality(merged_best)
                p == IF n > V1_MIN_MERGED
                     THEN PearsonP(PearsonR(net, HostShiftedV1(host, best.lag),
                                            merged_best), n)
                     ELSE POne
            IN [status |-> "ok",
                correlations |-> valid_corrs,
                lag_seconds |-> best.lag,
                correlation |-> best.r,
                p_value |-> p,
                n_samples |-> n]

(***************************************************************************)
(* taskA1_multiple_incident_analysis_v2.py: calculate_lag_from_aligned_data*)
(* from the merged signals on                                              *)
(***************************************************************************)
max_lag_v2 == MaxLag + 1
V2_MIN_MERGED == 10
V2_MIN_SHIFTED == 5

\* np.corrcoef(x, y)[0, 1]: NaN as soon as a cell is NaN or an input is constant
CorrCoef(x, y) ==
    IF \E i \in 1..Len(x) : x[i] = NaN \/ y[i] = NaN THEN RNaN
    ELSE PearsonR(x, y, 1..Len(x))

NetShiftedV2(net, lag) ==
    IF lag > 0 THEN PySliceTo(net, -lag)
    ELSE IF lag < 0 THEN PySliceFrom(net, Abs(lag))
    ELSE net

HostShiftedV2(host, lag) ==
    IF lag > 0 THEN PySliceFrom(host, lag)
    ELSE IF lag < 0 THEN PySliceTo(host, -Abs(lag))
    ELSE host

CorrV2(net, host, lag) ==
    IF lag = 0 THEN CorrCoef(net, host)
    ELSE IF Len(net) <= Abs(lag) THEN RNaN
    ELSE IF Len(NetShiftedV2(net, lag)) > V2_MIN_SHIFTED
         THEN CorrCoef(NetShiftedV2(net, lag), HostShiftedV2(host, lag))
         ELSE RNaN

LagsV2 == [k \in 1..(2 * max_lag_v2 + 1) |-> k - 1 - max_lag_v2]

ValidCorrsV2(net, host) ==
    DropNaN([k \in 1..Len(LagsV2) |->
                [lag |-> LagsV2[k], r |-> CorrV2(net, host, LagsV2[k])]], 1)

\* max(valid_corrs, key = lambda x: abs(x[1]))
BestV2(valid_corrs) == PyMaxAbs(valid_corrs)

ResultV2(net, host) ==
    IF Len(net) < V2_MIN_MERGED THEN None
    ELSE LET valid_corrs == ValidCorrsV2(net, host)
         IN IF Len(valid_corrs) = 0 THEN None
            ELSE LET best == BestV2(valid_corrs)
                     x == NetShiftedV2(net, best.lag)
                     y == HostShiftedV2(host, best.lag)
                     p == PearsonP(CorrCoef(x, y), Len(x))
                 IN [status |-> "ok",
                     correlations |-> valid_corrs,
                     lag_seconds |-> best.lag,
                     correlation |-> best.r,
                     p_value |-> p,
                     n_samples |-> Len(x),
                     n_time_points |-> Len(net)]

(***************************************************************************)
(* Exact rationals for the means of task2 and task3                        *)
(***************************************************************************)
RECURSIVE GCD(_, _)
GCD(a, b) == IF b = 0 THEN a ELSE GCD(b, a % b)

NaNQ == <<0, 0>>
QNorm(p, q) == LET g == GCD(Abs(p), q) IN <<p \div g, q \div g>>
Q(v) == <<v, 1>>
QAdd(a, b) == QNorm(a[1] * b[2] + b[1] * a[2], a[2] * b[2])
QDivInt(a, n) == QNorm(a[1], a[2] * n)

\* pandas sum / mean of a column (skipna): the sum of the non-NaN cells, and
\* their mean, NaN when there is none
RECURSIVE ColSum(_, _)
ColSum(rows, i) ==
    IF i > Len(rows) THEN Q(0)
    ELSE IF rows[i].v = NaNQ THEN ColSum(rows, i + 1)
    ELSE QAdd(rows[i].v, ColSum(rows, i + 1))

ColCount(rows) == Cardinality({i \in 1..Len(rows) : rows[i].v /= NaNQ})

ColMean(rows) ==
    IF ColCount(rows) = 0 THEN NaNQ ELSE QDivInt(ColSum(rows, 1), ColCount(rows))

\* df[mask]: the rows at the positions of mask, in order
RECURSIVE Take(_, _, _)
Take(rows, mask, i) ==
    IF i > Len(rows) THEN <<>>
    ELSE IF i \in mask THEN <<rows[i]>> \o Take(rows, mask, i + 1)
    ELSE Take(rows, mask, i + 1)

(***************************************************************************)
(* task3_align_multilayer.py, one layer (the host, network and power       *)
(* blocks are the same code).  Times t2 are in half seconds.               *)
(***************************************************************************)
\* mutant of WINDOW_TOLERANCE2: a window of +-1.5 s
WindowToleranceNarrow == 5 - 2
WINDOW_TOLERANCE2 == 5
TIME_RANGE == 0..MaxT

\* mutant of InWindow: the upper border included
InWindowClosed(t2, t, tol2) == t2 >= 2 * t - tol2 /\ t2 <= 2 * t + tol2

\* mutant of InWindow: a window of the fixed width of 5 s ending at t + tol
InWindowFixedWidth(t2, t, tol2) ==
    t2 >= 2 * t + tol2 - 2 * WINDOW_TOLERANCE2 /\ t2 < 2 * t + tol2

\* (time_rel >= window_start) & (time_rel < window_end)
InWindow(t2, t, tol2) == t2 >= 2 * t - tol2 /\ t2 < 2 * t + tol2

\* the aligned cell of the layer's feature at second t
AlignedCell(rows, t, tol2) ==
    LET mask == {i \in 1..Len(rows) : InWindow(rows[i].t2, t, tol2)}
        window == Take(rows, mask, 1)
    IN IF Len(window) > 0 THEN ColMean(window) ELSE NaNQ

\* df_aligned restricted to the layer: one cell per second of TIME_RANGE
AlignedRows(rows, tol2) == [k \in 1..(MaxT + 1) |-> AlignedCell(rows, k - 1, tol2)]

NullCount(cells) == Cardinality({k \in 1..Len(cells) : cells[k] = NaNQ})

\* isnull().sum().sum() / (len(df_aligned) * len(cols)) * 100
MissingRate(cells) == QNorm(100 * NullCount(cells), Len(cells))

\* mutant of AlignResult: a second whose window is empty gets no row
AlignResultSkipEmpty(rows, tol2) ==
    LET kept == SelectSeq([k \in 1..(MaxT + 1) |-> k - 1],
                          LAMBDA t : AlignedCell(rows, t, tol2) /= NaNQ)
        cells == [k \in 1..Len(kept) |-> AlignedCell(rows, kept[k], tol2)]
    IN [status |-> "ok",
        window_tolerance2 |-> tol2,
        time_rel |-> kept,
        cells |-> cells,
        missing_rate |-> MissingRate(AlignedRows(rows, tol2))]

\* df_aligned (column time_rel and the layer's column) and the metadata
AlignResult(rows, tol2) ==
    LET cells == AlignedRows(rows, tol2)
    IN [status |-> "ok",
        window_tolerance2 |-> tol2,
        time_rel |-> [k \in 1..(MaxT + 1) |-> k - 1],
        cells |-> cells,
        missing_rate |-> MissingRate(cells)]

\* the tolerances the aligner is run with: 1.5 s and the script's 2.5 s
Tolerances == {WINDOW_TOLERANCE2 - 2, WINDOW_TOLERANCE2}

(***************************************************************************)
(* task2_normalize_relative_time.py, one layer of one attack scenario.     *)
(* Rows carry times in half seconds.                                       *)
(***************************************************************************)
duration == MaxT
\* mutant of FFILL_LIMIT: one more second is filled
FFillLimitSix == 5 + 1
FFILL_LIMIT == 5
Layers == {"host", "network", "power"}

\* Series.round(): to the nearest second, halves to the even second
RoundHalfEven(t2) ==
    IF t2 % 2 = 0 THEN t2 \div 2
    ELSE LET f == (t2 - 1) \div 2 IN IF f % 2 = 0 THEN f ELSE f + 1

\* df[(time_rel >= 0) & (time_rel <= duration)]
ScenarioWindow(rows) ==
    Take(rows, {i \in 1..Len(rows) : rows[i].t2 >= 0 /\ rows[i].t2 <= 2 * duration}, 1)

\* groupby('time_sec')[feature].mean() for host and power, .sum() for network
GroupValue(layer, window, sec) ==
    LET mask == {i \in 1..Len(window) : RoundHalfEven(window[i].t2) = sec}
        group == Take(window, mask, 1)
    IN IF Len(group) = 0 THEN NaNQ
       ELSE IF layer = "network" THEN ColSum(group, 1)
       ELSE ColMean(group)

\* all_seconds.merge(layer_1s, on = time_rel, how = left)
Merged1s(layer, window) == [k \in 1..(duration + 1) |-> GroupValue(layer, window, k - 1)]

\* fillna(method = 'ffill', limit = 5)
FFill(cells) ==
    [k \in 1..Len(cells) |->
        IF cells[k] /= NaNQ THEN cells[k]
        ELSE LET prev == {j \in 1..(k - 1) : cells[j] /= NaNQ}
             IN IF prev = {} THEN NaNQ
                ELSE LET last == CHOOSE j \in prev : \A i \in prev : i <= j
                     IN IF k - last <= FFILL_LIMIT THEN cells[last] ELSE NaNQ]

\* fillna(0)
FillZero(cells) == [k \in 1..Len(cells) |-> IF cells[k] = NaNQ THEN Q(0) ELSE cells[k]]

Filled(layer, cells) == IF layer = "network" THEN FillZero(cells) ELSE FFill(cells)

\* the rows of <layer>_relative.csv
NormalizedRows(layer, rawrows) ==
    LET window == ScenarioWindow(rawrows)
        cells == Filled(layer, Merged1s(layer, window))
    IN [k \in 1..(duration + 1) |-> [t2 |-> 2 * (k - 1), v |-> cells[k]]]

\* frames of at most n rows in time order, times in lo .. hi half seconds
RowSet(lo, hi) == [t2 : lo..hi, v : {NaNQ, Q(0), Q(1)}]
RowKey(row) == 3 * row.t2 + (IF row.v = NaNQ THEN 0 ELSE row.v[1] + 1)
Ordered(f) == \A i \in 1..(Len(f) - 1) : RowKey(f[i]) <= RowKey(f[i + 1])
FrameSet(n, lo, hi) ==
    UNION {{f \in [1..m -> RowSet(lo, hi)] : Ordered(f)} : m \in 0..n}

(***************************************************************************)
(* task1_detect_attack_starts.py.  A candidate series is a sequence of     *)
(* rows [time, value] in time order, times in whole seconds.  A baseline   *)
(* is kept as the count, sum and sum of squares of the rows it is computed *)
(* from, so that "x > mean + 2 * std" is decided exactly.                  *)
(***************************************************************************)
window_size == 5
confirmation_duration == 10

Times(series) == [i \in 1..Len(series) |-> series[i].time]
Values(series) == [i \in 1..Len(series) |-> series[i].value]
Squares(vals) == [i \in 1..Len(vals) |-> vals[i] * vals[i]]

\* what .mean() and .std() of the rows vals[i], i in S, are computed from
StatsAt(vals, S) ==
    [n |-> Cardinality(S), sum |-> SumAt(vals, S), sumsq |-> SumAt(Squares(vals), S)]

Stats(vals) == StatsAt(vals, 1..Len(vals))

\* sum / k > mean + 2 * std of the baseline.  The mean of no row, and the
\* std (ddof = 1) of fewer than two rows, are NaN, and NaN compares False.
Exceeds(sum, k, base) ==
    /\ k > 0
    /\ base.n >= 2
    /\ LET D == sum * base.n - base.sum * k
           V == base.n * base.sumsq - base.sum * base.sum
       IN D > 0 /\ D * D * (base.n - 1) > 4 * k * k * base.n * V

\* (time_values >= window_start) & (time_values < window_start + width)
WindowMask(series, s, width) ==
    {j \in 1..Len(series) : series[j].time >= s /\ series[j].time < s + width}

\* feature_values[mask].mean() > threshold
WindowExceeds(series, s, width, base) ==
    LET mask == WindowMask(series, s, width)
    IN Exceeds(SumAt(Values(series), mask), Cardinality(mask), base)

\* the two tests of the loop body for the window starting at row i
Accepts(series, i, base) ==
    /\ WindowExceeds(series, series[i].time, window_size, base)
    /\ Cardinality(WindowMask(series, series[i].time, confirmation_duration)) > 0
    /\ WindowExceeds(series, series[i].time, confirmation_duration, base)

\* mutant of FirstAccepted: the scan keeps the last accepted row
RECURSIVE LastAccepted(_, _, _)
LastAccepted(series, i, base) ==
    IF i > Len(series) THEN 0
    ELSE LET later == LastAccepted(series, i + 1, base)
         IN IF later /= 0 THEN later
            ELSE IF Accepts(series, i, base) THEN i ELSE 0

\* for i in range(len(attack_host)): ... break; 0 when the loop runs out
RECURSIVE FirstAccepted(_, _, _)
FirstAccepted(series, i, base) ==
    IF i > Len(series) THEN 0
    ELSE IF Accepts(series, i, base) THEN i
    ELSE FirstAccepted(series, i + 1, base)

\* mutant of HostStart: the end of the accepted window is reported as the start
HostStartWindowEnd(series, benign) ==
    IF Len(series) = 0 THEN None
    ELSE LET base == Stats(benign)
             i == FirstAccepted(series, 1, base)
         IN IF i /= 0
            THEN [timestamp |-> series[i].time + window_size,
                  value |-> series[i].value,
                  threshold |-> base,
                  confidence |-> "high",
                  detection_method |-> "sliding_window_2sigma"]
            ELSE [timestamp |-> series[1].time,
                  value |-> series[1].value,
                  threshold |-> base,
                  confidence |-> "low",
                  detection_method |-> "manual_fallback_first_timestamp"]

\* results[scenario]['host']
HostStart(series, benign) ==
    IF Len(series) = 0 THEN None
    ELSE LET base == Stats(benign)
             i == FirstAccepted(series, 1, base)
         IN IF i /= 0
            THEN [timestamp |-> series[i].time,
                  value |-> series[i].value,
                  threshold |-> base,
                  confidence |-> "high",
                  detection_method |-> "sliding_window_2sigma"]
            ELSE [timestamp |-> series[1].time,
                  value |-> series[1].value,
                  threshold |-> base,
                  confidence |-> "low",
                  detection_method |-> "manual_fallback_first_timestamp"]

\* benign_power, or all of df_power when no row carries a benign label
PowerBaseline(series, benign) ==
    IF Len(benign) = 0 THEN Stats(Values(series)) ELSE Stats(benign)

\* np.where(power_values > benign_power_threshold)[0][0]; 0 when the mask is empty
RECURSIVE FirstExceed(_, _, _)
FirstExceed(series, i, base) ==
    IF i > Len(series) THEN 0
    ELSE IF Exceeds(series[i].value, 1, base) THEN i
    ELSE FirstExceed(series, i + 1, base)

\* results[scenario]['power']
PowerStart(series, benign) ==
    IF Len(series) = 0 THEN None
    ELSE LET base == PowerBaseline(series, benign)
             i == FirstExceed(series, 1, base)
         IN IF i /= 0
            THEN [timestamp |-> series[i].time,
                  value |-> series[i].value,
                  threshold |-> base,
                  confidence |-> "medium",
                  detection_method |-> "threshold_crossing"]
            ELSE [timestamp |-> series[1].time,
                  value |-> series[1].value,
                  threshold |-> base,
                  confidence |-> "low",
                  detection_method |-> "manual_fallback_first_timestamp"]

\* the network file of the scenario: NoNetFile when no file (or no time
\* column) is found, else NetFile of its packet times in time order
NoNetFile == [status |-> "no network file"]
NetFile(times) == [status |-> "ok", times |-> times]
IndexError == [status |-> "IndexError"]

\* results[scenario]['network']; .iloc[0] of a file without rows raises
NetworkStart(packets) ==
    IF packets = NoNetFile THEN None
    ELSE IF Len(packets.times) = 0 THEN IndexError
    ELSE [timestamp |-> packets.times[1],
          value |-> Len(packets.times),
          duration |-> packets.times[Len(packets.times)] - packets.times[1],
          confidence |-> "high",
          detection_method |-> "first_packet_timestamp"]

\* the inputs of the detectors: benign rows, candidate series, network files
BenignSet == {<<>>, <<0>>, <<0, 0>>, <<-1, 0, 1>>}
Amplitudes == {3, 10}

\* per-second series at 0 outside the seconds a .. b-1 and at hi inside
PulseRows(a, b, hi) ==
    [i \in 1..DetLen |-> [time |-> i - 1, value |-> IF a < i /\ i <= b THEN hi ELSE 0]]
PulseSeries == {PulseRows(a, b, hi) : a \in 0..DetLen, b \in 0..DetLen, hi \in Amplitudes}

\* series of a few rows at the borders of the two windows
TimeGrid == {0, window_size - 1, window_size,
             confirmation_duration - 1, confirmation_duration}
SparseSeries ==
    UNION {{f \in [1..m -> [time : TimeGrid, value : {0, 10}]] :
              \A i \in 1..(m - 1) : f[i].time < f[i + 1].time} : m \in 0..MaxDet}

\* 0 for the seconds 0..19, then 10 for the seconds 20..59
ExampleSeries == [i \in 1..60 |-> [time |-> i - 1, value |-> IF i <= 20 THEN 0 ELSE 10]]

CandidateSet == PulseSeries \cup SparseSeries \cup {ExampleSeries}
NetInputs == {NoNetFile, NetFile(<<>>), NetFile(<<3>>), NetFile(<<3, 7>>)}

(***************************************************************************)
(* taskA1_multiple_incident_analysis.py: detect_attack_start on a          *)
(* per-second frame, and the caller's lookup of the start's timestamp      *)
(***************************************************************************)
rolling_window == 10
ValueError == [status |-> "ValueError"]

\* the rows of .rolling(window = 10, min_periods = 1) that end at row i
RollingRows(i) == {j \in 1..i : j > i - rolling_window}

\* rolling_mean[i] and rolling_std[i], as the statistics they are computed from
RollingBase(vals, i) == StatsAt(vals, RollingRows(i))

\* anomalies[i]: df[metric_col] > rolling_mean + sigma * rolling_std
Anomaly(vals, i) == Exceeds(vals[i], 1, RollingBase(vals, i))

\* Series.idxmax(): the first row holding the maximum (of True, of the metric)
FirstAnomaly(vals) ==
    CHOOSE i \in 1..Len(vals) :
        Anomaly(vals, i) /\ \A j \in 1..(i - 1) : ~Anomaly(vals, j)

IdxMax(vals) ==
    CHOOSE i \in 1..Len(vals) :
        /\ \A j \in 1..Len(vals) : vals[j] <= vals[i]
        /\ \A j \in 1..(i - 1) : vals[j] < vals[i]

\* detect_attack_start(df) and agg.loc[idx, 'timestamp_sec'] of the caller
AttackStartA1(series) ==
    LET vals == Values(series)
        anomalies == {i \in 1..Len(vals) : Anomaly(vals, i)}
    IN IF anomalies = {}
       THEN IF Len(vals) = 0 THEN ValueError
            ELSE [status |-> "ok",
                  attack_start_idx |-> IdxMax(vals),
                  attack_start |-> series[IdxMax(vals)].time]
       ELSE [status |-> "ok",
             attack_start_idx |-> FirstAnomaly(vals),
             attack_start |-> series[FirstAnomaly(vals)].time]

(***************************************************************************)
(* State                                                                   *)
(***************************************************************************)
VARIABLES
    layer1,     \* intensity series of the pair's first layer (e.g. net_intensity)
    layer2,     \* intensity series of the pair's second layer (e.g. host_intensity)
    pair,       \* the layer pair the series belong to
    corr5,      \* correlations[pair] written by task5, NotRun before
    resV1,      \* result of taskA1 v1 on the two series, NotRun before
    resV2,      \* result of taskA1 v2 on the two series, NotRun before
    layer,      \* the layer task2 and task3 work on
    raw,        \* the layer's samples of the scenario
    normalized, \* normalized_timelines/<scenario>/<layer>_relative.csv
    aligned,    \* the layer's columns of <scenario>_aligned.csv, per tolerance
    attack_starts, \* results/attack_start_points.json of one scenario, NoFile before
    benign,     \* key feature of the rows with a benign label
    series,     \* rows of the attack scenario, in time order
    packets,    \* the scenario's network file
    results,    \* results[scenario] of task1 while the script runs
    resDet,     \* what taskA1 gets from detect_attack_start on the series
    ran,        \* the scripts the pipeline run has finished, in order
    host_columns,     \* numeric columns of host_scaled.csv, in file order
    host_key_feature, \* task1's key feature of the host layer, NotRun before
    incidents,  \* taskA1: per incident, whether its network file exists
    host_file,  \* taskA1: whether HOST_FILE exists
    analysis,   \* taskA1: state of the incident loop
    host_timeline     \* force_timeline_generation: df_host_timeline, NotRun before

corrVars == <<layer1, layer2, pair, corr5, resV1, resV2>>
alignVars == <<layer, raw, normalized, aligned, attack_starts, ran>>
detVars == <<benign, series, packets, results, resDet>>
unitVars == <<host_columns, host_key_feature, incidents, host_file, analysis,
              host_timeline>>
vars == <<layer1, layer2, pair, corr5, resV1, resV2, layer, raw, normalized, aligned,
          attack_starts, ran, benign, series, packets, results, resDet,
          host_columns, host_key_feature, incidents, host_file, analysis,
          host_timeline>>

NoFile == [status |-> "no file"]
NoResults == [host |-> NotRun, network |-> NotRun, power |-> NotRun]

\* attack_start_points.json as task2 can find it: per layer None or an entry,
\* of which the timestamp and the confidence are kept
Confidences == {"high", "medium", "low"}
StartEntries == {None} \cup [timestamp : {0, 1}, confidence : {"high", "low"}]
StartFiles == {[host |-> e, network |-> e, power |-> e] : e \in StartEntries}

time_lagged_correlation ==
    /\ corr5 = NotRun
    /\ corr5' = PairResult(layer1, layer2, pair[1], pair[2])
    /\ UNCHANGED <<layer1, layer2, pair, resV1, resV2>>
    /\ UNCHANGED alignVars
    /\ UNCHANGED detVars
    /\ UNCHANGED unitVars

calculate_network_host_lag ==
    /\ resV1 = NotRun
    /\ resV1' = ResultV1(layer1, layer2)
    /\ UNCHANGED <<layer1, layer2, pair, corr5, resV2>>
    /\ UNCHANGED alignVars
    /\ UNCHANGED detVars
    /\ UNCHANGED unitVars

calculate_lag_from_aligned_data ==
    /\ resV2 = NotRun
    /\ resV2' = ResultV2(layer1, layer2)
    /\ UNCHANGED <<layer1, layer2, pair, corr5, resV1>>
    /\ UNCHANGED alignVars
    /\ UNCHANGED detVars
    /\ UNCHANGED unitVars

\* data['time_rel'] = data['time'] - t_start
TimeRel(rows, t_start) ==
    [i \in 1..Len(rows) |-> [t2 |-> rows[i].t2 - 2 * t_start, v |-> rows[i].v]]

\* <layer>_relative.csv as task2 writes it for the entry of attack_starts
NormalizedFile(lay, rows, entry) ==
    [status |-> "ok", rows |-> NormalizedRows(lay, TimeRel(rows, entry.timestamp))]

\* task2 on the layer: writes the file unless task1 left no start for the
\* layer or no sample lies in 0..duration after it
normalize_relative_time ==
    /\ normalized = NoFile
    /\ attack_starts /= NoFile
    /\ attack_starts[layer] /= None
    /\ Len(ScenarioWindow(TimeRel(raw, attack_starts[layer].timestamp))) > 0
    /\ normalized' = NormalizedFile(layer, raw, attack_starts[layer])
    /\ UNCHANGED <<layer, raw, aligned, attack_starts, ran>>
    /\ UNCHANGED corrVars
    /\ UNCHANGED detVars
    /\ UNCHANGED unitVars

\* task3 on the layer's file, with the tolerance the script is set to
align_multilayer_timeline(tol2) ==
    /\ normalized /= NoFile
    /\ aligned[tol2] = NotRun
    /\ aligned' = [aligned EXCEPT ![tol2] = AlignResult(normalized.rows, tol2)]
    /\ UNCHANGED <<layer, raw, normalized, attack_starts, ran>>
    /\ UNCHANGED corrVars
    /\ UNCHANGED detVars
    /\ UNCHANGED unitVars

CorrIdle ==
    /\ layer1 = <<>>
    /\ layer2 = <<>>
    /\ pair = <<"network", "host">>
    /\ corr5 = NotRun
    /\ resV1 = NotRun
    /\ resV2 = NotRun

AlignIdle ==
    /\ layer = "host"
    /\ raw = <<>>
    /\ normalized = NoFile
    /\ aligned = [tol2 \in Tolerances |-> NotRun]
    /\ attack_starts = NoFile
    /\ ran = <<>>

DetIdle ==
    /\ benign = <<>>
    /\ series = <<>>
    /\ packets = NoNetFile
    /\ results = NoResults
    /\ resDet = NotRun

UnitIdle ==
    /\ host_columns = <<>>
    /\ host_key_feature = NotRun
    /\ incidents = <<>>
    /\ host_file = TRUE
    /\ analysis = NotRun
    /\ host_timeline = NotRun

\* task5 alone, on every pair of short series
InitT5 ==
    /\ layer1 \in SeriesSet
    /\ layer2 \in SeriesSet
    /\ pair \in LayerPairs
    /\ corr5 = NotRun
    /\ resV1 = NotRun
    /\ resV2 = NotRun
    /\ AlignIdle
    /\ DetIdle
    /\ UnitIdle

NextT5 == time_lagged_correlation

SpecT5 == InitT5 /\ [][NextT5]_vars

\* the three correlators on the same network and host signals
InitA1 ==
    /\ layer1 \in PulseSet(A1Len)
    /\ layer2 \in PulseSet(A1Len)
    /\ pair = <<"network", "host">>
    /\ corr5 = NotRun
    /\ resV1 = NotRun
    /\ resV2 = NotRun
    /\ AlignIdle
    /\ DetIdle
    /\ UnitIdle

NextA1 ==
    \/ time_lagged_correlation
    \/ calculate_network_host_lag
    \/ calculate_lag_from_aligned_data

SpecA1 == InitA1 /\ [][NextA1]_vars

\* task3 alone on any small timeline file, run with each tolerance
InitAlign ==
    /\ CorrIdle
    /\ layer = "host"
    /\ raw = <<>>
    /\ normalized \in {[status |-> "ok", rows |-> f] :
                         f \in FrameSet(MaxRows, -(WINDOW_TOLERANCE2 + 1),
                                        2 * MaxT + WINDOW_TOLERANCE2 + 1)}
    /\ aligned = [tol2 \in Tolerances |-> NotRun]
    /\ attack_starts = NoFile
    /\ ran = <<>>
    /\ DetIdle
    /\ UnitIdle

NextAlign == \E tol2 \in Tolerances : align_multilayer_timeline(tol2)

SpecAlign == InitAlign /\ [][NextAlign]_vars

\* task2 then task3 on the raw samples of a layer
InitPipe ==
    /\ CorrIdle
    /\ layer \in Layers
    /\ raw \in FrameSet(MaxRaw, -1, 2 * MaxT + 1)
    /\ normalized = NoFile
    /\ aligned = [tol2 \in Tolerances |-> NotRun]
    /\ attack_starts \in StartFiles
    /\ ran = <<>>
    /\ DetIdle
    /\ UnitIdle

NextPipe ==
    \/ normalize_relative_time
    \/ align_multilayer_timeline(WINDOW_TOLERANCE2)

SpecPipe == InitPipe /\ [][NextPipe]_vars

\* task1, host layer of the scenario
detect_host_layer ==
    /\ results.host = NotRun
    /\ results' = [results EXCEPT !.host = HostStart(series, benign)]
    /\ UNCHANGED <<benign, series, packets, resDet>>
    /\ UNCHANGED corrVars
    /\ UNCHANGED alignVars
    /\ UNCHANGED unitVars

\* task1, network layer; an IndexError ends the script
detect_network_layer ==
    /\ results.host /= NotRun
    /\ results.network = NotRun
    /\ results' = [results EXCEPT !.network = NetworkStart(packets)]
    /\ UNCHANGED <<benign, series, packets, resDet>>
    /\ UNCHANGED corrVars
    /\ UNCHANGED alignVars
    /\ UNCHANGED unitVars

\* task1, power layer (the power rows are given the content of the host rows)
detect_power_layer ==
    /\ results.network /= NotRun
    /\ results.network /= IndexError
    /\ results.power = NotRun
    /\ results' = [results EXCEPT !.power = PowerStart(series, benign)]
    /\ UNCHANGED <<benign, series, packets, resDet>>
    /\ UNCHANGED corrVars
    /\ UNCHANGED alignVars
    /\ UNCHANGED unitVars

\* task1, step 4: json.dump(results) to attack_start_points.json
save_results ==
    /\ results.power /= NotRun
    /\ attack_starts = NoFile
    /\ attack_starts' = results
    /\ UNCHANGED <<layer, raw, normalized, aligned, ran>>
    /\ UNCHANGED detVars
    /\ UNCHANGED corrVars
    /\ UNCHANGED unitVars

\* taskA1: detect_attack_start on the per-second frame and the start's lookup
detect_attack_start ==
    /\ resDet = NotRun
    /\ resDet' = AttackStartA1(series)
    /\ UNCHANGED <<benign, series, packets, results>>
    /\ UNCHANGED corrVars
    /\ UNCHANGED alignVars
    /\ UNCHANGED unitVars

\* the detectors of task1 and of taskA1 on the same candidate series
InitDet ==
    /\ CorrIdle
    /\ AlignIdle
    /\ benign \in BenignSet
    /\ series \in CandidateSet
    /\ packets \in NetInputs
    /\ results = NoResults
    /\ resDet = NotRun
    /\ UnitIdle

NextDet ==
    \/ detect_host_layer
    \/ detect_network_layer
    \/ detect_power_layer
    \/ save_results
    \/ detect_attack_start

SpecDet == InitDet /\ [][NextDet]_vars

(***************************************************************************)
(* One pipeline run, task2 then task3, on the layer of a scenario that     *)
(* has the layer (has_network for the network layer).  The directory       *)
(* normalized_timelines/<scenario>/ is empty or holds the file an earlier  *)
(* run wrote from other samples.                                           *)
(***************************************************************************)
FileNotFoundError == [status |-> "FileNotFoundError"]

\* what an earlier run of task2 can have left in <layer>_relative.csv
EarlierFiles(lay) ==
    {[status |-> "ok", rows |-> NormalizedRows(lay, f)] :
        f \in {g \in FrameSet(RunRows, 0, 0) : Len(ScenarioWindow(g)) > 0}}

\* task2, the block of the layer: the file is written when task1 recorded a
\* start for the layer and samples lie in 0..duration after it; otherwise a
\* message is printed and the directory is left as it was
task2_main ==
    /\ ran = <<>>
    /\ normalized' =
          IF attack_starts[layer] = None THEN normalized
          ELSE IF Len(ScenarioWindow(TimeRel(raw, attack_starts[layer].timestamp))) = 0
               THEN normalized
               ELSE NormalizedFile(layer, raw, attack_starts[layer])
    /\ ran' = <<"task2">>
    /\ UNCHANGED <<layer, raw, aligned, attack_starts>>
    /\ UNCHANGED corrVars
    /\ UNCHANGED detVars
    /\ UNCHANGED unitVars

\* task3: pd.read_csv of <layer>_relative.csv, then the alignment
task3_main ==
    /\ ran = <<"task2">>
    /\ aligned' = [aligned EXCEPT ![WINDOW_TOLERANCE2] =
                      IF normalized = NoFile THEN FileNotFoundError
                      ELSE AlignResult(normalized.rows, WINDOW_TOLERANCE2)]
    /\ ran' = <<"task2", "task3">>
    /\ UNCHANGED <<layer, raw, normalized, attack_starts>>
    /\ UNCHANGED corrVars
    /\ UNCHANGED detVars
    /\ UNCHANGED unitVars

InitRun ==
    /\ CorrIdle
    /\ layer \in Layers
    /\ raw \in FrameSet(RunRows, -1, 2 * MaxT + 1)
    /\ normalized \in {NoFile} \cup EarlierFiles(layer)
    /\ aligned = [tol2 \in Tolerances |-> NotRun]
    /\ attack_starts \in StartFiles
    /\ ran = <<>>
    /\ DetIdle
    /\ UnitIdle

NextRun ==
    \/ task2_main
    \/ task3_main

SpecRun == InitRun /\ [][NextRun]_vars

(***************************************************************************)
(* Analysis units and the inputs they require: the key feature of the      *)
(* host layer in task1, the incident loop of taskA1, and the host timeline *)
(* of force_timeline_generation.py (raw holds the DoS rows of the host     *)
(* file, times in half seconds).                                           *)
(***************************************************************************)
\* the columns with 'cpu' or 'sched' in their name
CpuColumns == {"cpu_user", "sched_switch"}
HostFrames ==
    {<<"time", "cpu_user", "mem_free">>,
     <<"time", "mem_free", "sched_switch", "cpu_user">>,
     <<"mem_free", "time">>,
     <<"time", "mem_free">>}

\* host_key_feature: the first cpu column; without one the first of the
\* first ten numeric columns; 'time' when there is none
KeyFeature(columns) ==
    LET cpu == SelectSeq(columns, LAMBDA c : c \in CpuColumns)
        host_cpu_cols ==
            IF Len(cpu) = 0
            THEN SubSeq(columns, 1, IF Len(columns) < 10 THEN Len(columns) ELSE 10)
            ELSE cpu
    IN [status |-> "ok",
        feature |-> IF Len(host_cpu_cols) > 0 THEN host_cpu_cols[1] ELSE "time"]

\* an incident of the list: its network file is missing, or the analysis
\* of the two files returns None or a result
IncidentKinds == {"missing", "none", "result"}
LoopStart == [i |-> 1, results |-> <<>>, status |-> "loop"]

\* one pass of `for incident in incidents`
LoopStep(a, incs, host) ==
    LET next == IF a.i = Len(incs) THEN "done" ELSE "loop"
    IN IF incs[a.i] = "missing"
       THEN [a EXCEPT !.i = a.i + 1, !.status = next]
       ELSE IF ~host
       THEN [a EXCEPT !.status = "break"]
       ELSE [i |-> a.i + 1,
             results |-> IF incs[a.i] = "result" THEN Append(a.results, a.i)
                         ELSE a.results,
             status |-> next]

\* time_min, time_max: floor of the first and ceil of the last time
TimeMin(rows) ==
    LET lo == CHOOSE i \in 1..Len(rows) : \A j \in 1..Len(rows) : rows[i].t2 <= rows[j].t2
    IN rows[lo].t2 \div 2
TimeMax(rows) ==
    LET hi == CHOOSE i \in 1..Len(rows) : \A j \in 1..Len(rows) : rows[j].t2 <= rows[i].t2
    IN (rows[hi].t2 + 1) \div 2

\* dos_host[dos_host['time_bin'] == time_sec] with pd.cut(include_lowest):
\* the rows in (time_sec, time_sec + 1], and time_min itself in the first bin
BinWindow(rows, sec) ==
    Take(rows, {i \in 1..Len(rows) :
                   \/ rows[i].t2 > 2 * sec /\ rows[i].t2 <= 2 * sec + 2
                   \/ sec = TimeMin(rows) /\ rows[i].t2 = 2 * sec}, 1)

\* host_timeline: per bin the mean of the feature, 0.0 for a bin without rows
HostTimeline(rows) ==
    [k \in 1..(TimeMax(rows) - TimeMin(rows)) |->
        LET window == BinWindow(rows, TimeMin(rows) + k - 1)
        IN [time |-> TimeMin(rows) + k - 1,
            value |-> IF Len(window) > 0 THEN ColMean(window) ELSE Q(0)]]

\* task1, step 2: selection of the host key feature
select_host_key_feature ==
    /\ host_key_feature = NotRun
    /\ host_key_feature' = KeyFeature(host_columns)
    /\ UNCHANGED <<host_columns, incidents, host_file, analysis, host_timeline>>
    /\ UNCHANGED corrVars
    /\ UNCHANGED alignVars
    /\ UNCHANGED detVars

\* taskA1: one incident of the loop
analyze_incident ==
    /\ analysis.status = "loop"
    /\ analysis' = LoopStep(analysis, incidents, host_file)
    /\ UNCHANGED <<host_columns, host_key_feature, incidents, host_file, host_timeline>>
    /\ UNCHANGED corrVars
    /\ UNCHANGED alignVars
    /\ UNCHANGED detVars

\* force_timeline_generation, step 1
build_host_timeline ==
    /\ host_timeline = NotRun
    /\ host_timeline' = [status |-> "ok", rows |-> HostTimeline(raw)]
    /\ UNCHANGED <<host_columns, host_key_feature, incidents, host_file, analysis>>
    /\ UNCHANGED corrVars
    /\ UNCHANGED alignVars
    /\ UNCHANGED detVars

\* host files with DoS rows spanning at least one 1-second bin
InitUnits ==
    /\ CorrIdle
    /\ layer = "host"
    /\ raw \in {f \in FrameSet(MaxRaw, 0, 2 * UnitSpan) :
                   Len(f) > 0 /\ TimeMin(f) < TimeMax(f)}
    /\ normalized = NoFile
    /\ aligned = [tol2 \in Tolerances |-> NotRun]
    /\ attack_starts = NoFile
    /\ ran = <<>>
    /\ DetIdle
    /\ host_columns \in HostFrames
    /\ host_key_feature = NotRun
    /\ incidents \in [1..MaxInc -> IncidentKinds]
    /\ host_file \in BOOLEAN
    /\ analysis = LoopStart
    /\ host_timeline = NotRun

NextUnits ==
    \/ select_host_key_feature
    \/ analyze_incident
    \/ build_host_timeline

SpecUnits == InitUnits /\ [][NextUnits]_vars

(***************************************************************************)
(* Properties of task5's scan (SpecT5)                                     *)
(***************************************************************************)
Done5 == corr5 /= NotRun
Table5 == corr5.lag_correlations
Lags == LAG_MIN..LAG_MAX
EntryAt(table, lag) == table[lag - LAG_MIN + 1]
NRows == Len(layer1)

\* the seconds j at which layer1 at j and layer2 at j - lag both hold a value
PairedSeconds(a, b, lag) ==
    {j \in 1..Len(a) : /\ j - lag \in 1..Len(b)
                       /\ a[j] /= NaN
                       /\ b[j - lag] /= NaN}

\* C2 (as claimed): among the lags sharing the maximum |r| the reported
\* optimal lag is the one of smallest |lag|
C2_TieBreakSmallestAbsLag ==
    Done5 =>
        \A l \in Lags :
            (~AbsGt(corr5.optimal_r, EntryAt(Table5, l).r)
             /\ ~AbsGt(EntryAt(Table5, l).r, corr5.optimal_r))
            => Abs(corr5.optimal_lag) <= Abs(l)

\* layer2 is layer1 delayed by k seconds: layer2 at i + k equals layer1 at i
\* wherever both seconds exist, and the cells of the overlap hold values
IsShiftBy(a, b, k) ==
    \A i \in 1..Len(a) :
        (i + k \in 1..Len(b)) => (a[i] /= NaN /\ b[i + k] = a[i])
Overlap(a, k) == {i \in 1..Len(a) : i + k \in 1..Len(a)}
NonConstantOn(a, S) == \E i, j \in S : a[i] /= a[j]
NoNaN(a) == \A i \in 1..Len(a) : a[i] /= NaN
\* the shifts the scan can see with at least MIN_VALID paired seconds
Shifts == {k \in Lags : NRows - Abs(k) >= MIN_VALID}

\* C3 (as claimed): a series without nulls, non-constant (even on the
\* overlap), and its copy delayed by k seconds give optimal_lag = k in
\* task5's convention (lag -k: layer1 leads) and optimal_r = 1
C3_ShiftGivesLagK ==
    Done5 =>
        \A k \in Shifts :
            (/\ NoNaN(layer1)
             /\ NonConstantOn(layer1, Overlap(layer1, k))
             /\ IsShiftBy(layer1, layer2, k))
            => (corr5.optimal_lag = -k /\ IsOne(corr5.optimal_r))

\* C3 (amended): when the series is non-constant on the overlap, the entry
\* at lag -k has r = 1 over all seconds of the overlap, the optimal entry has
\* |r| = 1, and the optimal lag is -k with r = 1 when no other lag of the
\* scan reaches |r| = 1
C3_ShiftEntryIsOne ==
    Done5 =>
        \A k \in Shifts :
            (IsShiftBy(layer1, layer2, k) /\ NonConstantOn(layer1, Overlap(layer1, k)))
            => /\ IsOne(EntryAt(Table5, -k).r)
               /\ EntryAt(Table5, -k).n_samples = NRows - Abs(k)
               /\ AbsIsOne(corr5.optimal_r)
               /\ (\A l \in Lags \ {-k} : ~AbsIsOne(EntryAt(Table5, l).r))
                  => (corr5.optimal_lag = -k /\ IsOne(corr5.optimal_r))

\* C3 witness: a delayed copy (k = 1) that no other lag matches, found at -1
C3_Witness ==
    /\ Done5
    /\ IsShiftBy(layer1, layer2, 1)
    /\ NonConstantOn(layer1, Overlap(layer1, 1))
    /\ \A l \in Lags \ {-1} : ~AbsIsOne(EntryAt(Table5, l).r)
    /\ corr5.optimal_lag = -1

\* C4 (as claimed): a lag with fewer than 3 paired seconds is recorded with
\* r = 0, p_value = 1 and n_samples = 0
C4_VoidEntryZeroSamples ==
    Done5 =>
        \A l \in Lags :
            Cardinality(PairedSeconds(layer1, layer2, l)) < 3
            => /\ EntryAt(Table5, l).r = RZero
               /\ EntryAt(Table5, l).p_value = POne
               /\ EntryAt(Table5, l).n_samples = 0

\* C4 (amended): a lag with fewer than 3 paired seconds is recorded with
\* r = 0, p_value = 1 and n_samples = the number of paired seconds (0, 1, 2)
C4_VoidEntryKeepsCount ==
    Done5 =>
        \A l \in Lags :
            Cardinality(PairedSeconds(layer1, layer2, l)) < 3
            => /\ EntryAt(Table5, l).r = RZero
               /\ EntryAt(Table5, l).p_value = POne
               /\ EntryAt(Table5, l).n_samples
                     = Cardinality(PairedSeconds(layer1, layer2, l))

\* C4 witness: a void entry over two paired seconds whose values differ
C4_Witness ==
    /\ Done5
    /\ \E l \in Lags :
          /\ Cardinality(PairedSeconds(layer1, layer2, l)) = 2
          /\ NonConstantOn(layer1, PairedSeconds(layer1, layer2, l))
          /\ EntryAt(Table5, l).n_samples = 2

\* the entry the scan must record when it compares layer `lead` at second i
\* with layer `follow` at second i + d
PairedEntry(lead, follow, d) ==
    LET m == Len(lead) - d
        x == [i \in 1..m |-> lead[i]]
        y == [i \in 1..m |-> follow[i + d]]
        M == {i \in 1..m : x[i] /= NaN /\ y[i] /= NaN}
        r == PearsonR(x, y, M)
    IN [r |-> IF Cardinality(M) < 3 \/ r = RNaN THEN RZero ELSE r,
        n_samples |-> Cardinality(M)]

\* C6: the label follows the sign of the optimal lag and names as leader the
\* layer the scan took at the earlier second: l < 0, layer1 leads by |l| and
\* the entry compares layer1 at i with layer2 at i + |l|; l > 0, layer2 leads
\* by l and the entry compares layer2 at i with layer1 at i + l; l = 0,
\* synchronous
C6_LabelAgreesWithPairing ==
    Done5 =>
        LET l == corr5.optimal_lag
            e == EntryAt(Table5, l)
            got == [r |-> e.r, n_samples |-> e.n_samples]
        IN /\ l < 0 =>
                /\ corr5.interpretation
                     = <<Upper(pair[1]), "leads", Upper(pair[2]), "by", -l, "seconds">>
                /\ got = PairedEntry(layer1, layer2, -l)
           /\ l > 0 =>
                /\ corr5.interpretation
                     = <<Upper(pair[2]), "leads", Upper(pair[1]), "by", l, "seconds">>
                /\ got = PairedEntry(layer2, layer1, l)
           /\ l = 0 =>
                /\ corr5.interpretation
                     = <<Upper(pair[1]), "and", Upper(pair[2]), "are synchronous (no lag)">>
                /\ got = PairedEntry(layer1, layer2, 0)

\* C6 witness: a positive optimal lag over a non-void entry
C6_Witness ==
    /\ Done5
    /\ corr5.optimal_lag > 0
    /\ ~IsZero(corr5.optimal_r)
    /\ corr5.interpretation[1] = Upper(pair[2])

(***************************************************************************)
(* Properties of the three correlators on the same signals (SpecA1)        *)
(***************************************************************************)
DoneV1 == resV1 /= NotRun
DoneV2 == resV2 /= NotRun
Seq2Set(seq) == {seq[i] : i \in 1..Len(seq)}

\* C1 (as claimed): in every table a correlator produces, the selected
\* optimal entry has |r| >= the |r| of every entry of the table
C1_OptimalHasMaxAbsR ==
    /\ Done5 =>
         \A e \in Seq2Set(Table5) : AbsGeq(corr5.optimal_r, e.r)
    /\ (DoneV1 /\ resV1 /= None) =>
         \A e \in Seq2Set(resV1.correlations) : AbsGeq(resV1.correlation, e.r)
    /\ (DoneV2 /\ resV2 /= None) =>
         \A e \in Seq2Set(resV2.correlations) : AbsGeq(resV2.correlation, e.r)

\* the coefficient of first[i] against second[i + l] over all seconds i where
\* both exist (no NaN in the signals of SpecA1)
LeadR(first, second, l) ==
    LET m == Len(first) - l
    IN PearsonR([i \in 1..m |-> first[i]], [i \in 1..m |-> second[i + l]], 1..m)

Sign(x) == IF x < 0 THEN -1 ELSE IF x > 0 THEN 1 ELSE 0

\* C5 (as claimed): every correlator compares, at a positive lag l, series A
\* (layer1, network) at second i with series B (layer2, host) at second
\* i + l, and the three optimal lags of the same two series have one sign
C5_OneSignConvention ==
    /\ Done5 =>
         \A e \in Seq2Set(Table5) :
            (e.lag > 0 /\ e.n_samples >= MIN_VALID /\ LeadR(layer1, layer2, e.lag) /= RNaN)
            => e.r = LeadR(layer1, layer2, e.lag)
    /\ (DoneV1 /\ resV1 /= None) =>
         \A e \in Seq2Set(resV1.correlations) :
            e.lag > 0 => e.r = LeadR(layer1, layer2, e.lag)
    /\ (DoneV2 /\ resV2 /= None) =>
         \A e \in Seq2Set(resV2.correlations) :
            e.lag > 0 => e.r = LeadR(layer1, layer2, e.lag)
    /\ (Done5 /\ DoneV1 /\ resV1 /= None /\ DoneV2 /\ resV2 /= None) =>
         /\ Sign(corr5.optimal_lag) = Sign(resV2.lag_seconds)
         /\ Sign(resV1.lag_seconds) = Sign(resV2.lag_seconds)

\* C5, the part the A1 scripts do satisfy: v1 and v2 compare network at i
\* with host at i + l (used to read the counterexample, not a claim)
A1PairingNetworkLeads ==
    /\ (DoneV1 /\ resV1 /= None) =>
         \A e \in Seq2Set(resV1.correlations) :
            e.lag > 0 => e.r = LeadR(layer1, layer2, e.lag)
    /\ (DoneV2 /\ resV2 /= None) =>
         \A e \in Seq2Set(resV2.correlations) :
            e.lag > 0 => e.r = LeadR(layer1, layer2, e.lag)

(***************************************************************************)
(* Properties of the aligner (SpecAlign) and of task2 -> task3 (SpecPipe)  *)
(***************************************************************************)
Tol == WINDOW_TOLERANCE2
AlignedAt(tol2) == aligned[tol2]
DoneAlign(tol2) == aligned[tol2] /= NotRun

\* the samples of the feature: the rows of the file that hold a value
Samples == {i \in 1..Len(normalized.rows) : normalized.rows[i].v /= NaNQ}
\* the samples whose time lies in [t - 2.5, t + 2.5)
SamplesNear(t) ==
    {i \in Samples : /\ 2 * t - Tol <= normalized.rows[i].t2
                     /\ normalized.rows[i].t2 < 2 * t + Tol}
SampleValues == [i \in Samples |-> normalized.rows[i].v[1]]
\* s / n as a fraction of integers equals the rational q
IsFraction(q, sum, n) == q /= NaNQ /\ q[1] * n = sum * q[2]

\* C7: the aligned value at second t is the arithmetic mean of the samples
\* with time in [t - 2.5, t + 2.5), and null when there is no such sample
C7_WindowedMean ==
    DoneAlign(Tol) =>
        \A t \in TIME_RANGE :
            LET cell == AlignedAt(Tol).cells[t + 1]
                near == SamplesNear(t)
            IN IF near = {} THEN cell = NaNQ
               ELSE IsFraction(cell, SumAt(SampleValues, near), Cardinality(near))

\* C7 witness: a sample exactly at t - 2.5 is averaged in, one exactly at
\* t + 2.5 is left out (t = 3: 0.5 s counts, 5.5 s does not)
C7_Witness ==
    /\ DoneAlign(Tol)
    /\ Len(normalized.rows) = 2
    /\ normalized.rows[1] = [t2 |-> 2 * 3 - Tol, v |-> Q(1)]
    /\ normalized.rows[2] = [t2 |-> 2 * 3 + Tol, v |-> Q(0)]
    /\ AlignedAt(Tol).cells[3 + 1] = Q(1)

\* C8 (as claimed): an aligned cell at second t holds a value only if a
\* source sample of the layer lies within 2.5 s of t
C8_NoInventedValues ==
    (normalized /= NoFile /\ DoneAlign(Tol)) =>
        \A t \in TIME_RANGE :
            AlignedAt(Tol).cells[t + 1] /= NaNQ
            => \E i \in 1..Len(raw) :
                   Abs(raw[i].t2 - 2 * attack_starts[layer].timestamp - 2 * t) <= Tol

NonNullCount(tol2) == Len(AlignedAt(tol2).cells) - NullCount(AlignedAt(tol2).cells)

\* C9: for the same input and tolerances tau1 <= tau2, the share of non-null
\* cells with tau2 is at least the share with tau1 (and the missing rate the
\* script reports is at most that of tau1)
C9_CoverageMonotone ==
    \A tau1, tau2 \in Tolerances :
        (tau1 <= tau2 /\ DoneAlign(tau1) /\ DoneAlign(tau2)) =>
            /\ NonNullCount(tau2) * Len(AlignedAt(tau1).cells)
                 >= NonNullCount(tau1) * Len(AlignedAt(tau2).cells)
            /\ AlignedAt(tau2).missing_rate[1] * AlignedAt(tau1).missing_rate[2]
                 <= AlignedAt(tau1).missing_rate[1] * AlignedAt(tau2).missing_rate[2]

\* C9 witness: both tolerances run, the wider one covers strictly more
C9_Witness ==
    /\ \A tol2 \in Tolerances : DoneAlign(tol2)
    /\ NonNullCount(Tol) > NonNullCount(Tol - 2)
    /\ NonNullCount(Tol - 2) > 0

\* C11 (as claimed): an alignment with more than half of the layer's cells
\* null carries an 'unreliable' flag, or at least a status other than the one
\* of a well-covered alignment
C11_LowCoverageFlagged ==
    \A tol2 \in Tolerances :
        (DoneAlign(tol2)
           /\ 2 * NullCount(AlignedAt(tol2).cells) > Len(AlignedAt(tol2).cells))
        => \/ "unreliable" \in DOMAIN AlignedAt(tol2)
           \/ AlignedAt(tol2).status /= "ok"

(***************************************************************************)
(* Properties of the attack-start detectors (SpecDet)                      *)
(***************************************************************************)
Base == Stats(benign)
HostRan == results.host /= NotRun /\ results.host /= None
PowerRan == results.power /= NotRun /\ results.power /= None
NetworkRan ==
    results.network /= NotRun /\ results.network /= None /\ results.network /= IndexError
HostHigh == HostRan /\ results.host.confidence = "high"

\* the window of the given width starting at time s has a mean above the
\* benign threshold
MeanAbove(s, width) == WindowExceeds(series, s, width, Base)

\* C12 (as claimed): a start s is accepted only if the mean of [s, s+5) and
\* the mean of the 10 units that follow that window, [s+5, s+15), both
\* exceed the threshold
C12_ConfirmationFollows ==
    HostHigh =>
        /\ MeanAbove(results.host.timestamp, window_size)
        /\ MeanAbove(results.host.timestamp + window_size, confirmation_duration)

\* the series is at the benign mean except for one row above the threshold
SingleSpike ==
    /\ Base.n >= 2
    /\ \E i \in 1..Len(series) :
          /\ Exceeds(series[i].value, 1, Base)
          /\ \A j \in 1..Len(series) : j /= i => series[j].value * Base.n = Base.sum

\* C13 (as claimed): on a series with a single sample above the threshold
\* every detector ends in its fallback outcome
C13_SingleSpikeRejected ==
    SingleSpike =>
        /\ HostRan => results.host.detection_method = "manual_fallback_first_timestamp"
        /\ PowerRan => results.power.detection_method = "manual_fallback_first_timestamp"
        /\ resDet /= NotRun =>
               \A i \in 1..Len(series) : ~Anomaly(Values(series), i)

\* a per-second series at the benign mean before the row of time T and at one
\* amplitude above the threshold from T on
OnsetAt(T) ==
    /\ Base.n >= 2
    /\ \A i \in 1..(Len(series) - 1) : series[i + 1].time = series[i].time + 1
    /\ \E i \in 1..Len(series) : series[i].time = T
    /\ \A i \in 1..Len(series) :
          IF series[i].time < T
          THEN series[i].value * Base.n = Base.sum
          ELSE /\ series[i].value = series[Len(series)].value
               /\ Exceeds(series[i].value, 1, Base)

Onsets == {series[i].time : i \in 1..Len(series)}

\* C14: for a series with a single onset T the host detector returns a start
\* within one window width (5) of T, with confidence 'high'; in particular on
\* the series 0 for 20 s then 10 for 40 s with a baseline of mean 0, std 1
C14_OnsetRecovered ==
    HostRan =>
        \A T \in Onsets :
            OnsetAt(T) =>
                /\ results.host.confidence = "high"
                /\ Abs(results.host.timestamp - T) <= window_size

\* C14 witness: the example of the specification has been detected, before
\* its onset at 20 s
C14_Witness ==
    /\ HostRan
    /\ series = ExampleSeries
    /\ benign = <<-1, 0, 1>>
    /\ OnsetAt(20)
    /\ results.host.confidence = "high"
    /\ results.host.timestamp < 20

\* two baselines give the same threshold as far as the probe values can tell
Probes == -2..12
SameThreshold(b1, b2) == \A x \in Probes : Exceeds(x, 1, b1) <=> Exceeds(x, 1, b2)

\* C15 (as claimed): every detector compares with mean + 2 std of the benign
\* rows, whatever the candidate series is
C15_ThresholdFromBenignOnly ==
    /\ HostRan => SameThreshold(results.host.threshold, Base)
    /\ PowerRan => SameThreshold(results.power.threshold, Base)
    /\ resDet /= NotRun =>
           \A i \in 1..Len(series) : SameThreshold(RollingBase(Values(series), i), Base)

NoRowAccepted == \A i \in 1..Len(series) : ~Accepts(series, i, Base)
NoAnomaly == \A i \in 1..Len(series) : ~Anomaly(Values(series), i)

\* C16 (as claimed): when no window is accepted the detector does not raise,
\* returns the first timestamp (task1) or the timestamp of the global
\* maximum (taskA1), and tags the result with confidence 'low'
C16_FallbackTaggedLow ==
    Len(series) > 0 =>
        /\ (HostRan /\ NoRowAccepted) =>
               /\ results.host.timestamp = series[1].time
               /\ results.host.confidence = "low"
        /\ (resDet /= NotRun /\ NoAnomaly) =>
               /\ resDet.status = "ok"
               /\ \A j \in 1..Len(series) : series[j].value <= series[resDet.attack_start_idx].value
               /\ resDet.attack_start = series[resDet.attack_start_idx].time
               /\ "confidence" \in DOMAIN resDet
               /\ resDet.confidence = "low"

\* the layer's start comes from an accepted window of the two-stage check
ConfirmedStart(lay) ==
    /\ lay = "host"
    /\ \E i \in 1..Len(series) :
          series[i].time = results.host.timestamp /\ Accepts(series, i, Base)

LayerRan(lay) ==
    results[lay] /= NotRun /\ results[lay] /= None /\ results[lay] /= IndexError

\* C17 (as claimed): a start that is a default (first timestamp, maximum) is
\* tagged 'low', and 'high' is given only to a start confirmed by the
\* window-plus-confirmation check
C17_HighOnlyWhenConfirmed ==
    /\ \A lay \in Layers :
          LayerRan(lay) =>
              /\ results[lay].confidence = "high" => ConfirmedStart(lay)
              /\ results[lay].detection_method
                     \in {"manual_fallback_first_timestamp", "first_packet_timestamp"}
                 => results[lay].confidence = "low"
    /\ (resDet /= NotRun /\ Len(series) > 0 /\ NoAnomaly) =>
           "confidence" \in DOMAIN resDet /\ resDet.confidence = "low"

\* C19 (as claimed): on a series without samples every detector reports a
\* 'no data' outcome, neither an error nor a timestamp
C19_NoDataOutcome ==
    /\ Len(series) = 0 =>
          /\ results.host /= NotRun => results.host = None
          /\ results.power /= NotRun => results.power = None
          /\ resDet /= NotRun => resDet = None
    /\ (packets /= NoNetFile /\ Len(packets.times) = 0) =>
          (results.network /= NotRun => results.network = None)

\* the two conditions of the loop hold for the window starting at time s
AcceptedAt(s) ==
    /\ MeanAbove(s, window_size)
    /\ MeanAbove(s, confirmation_duration)

\* C20: a detected start is a timestamp of the series at which both
\* conditions of the loop hold, and they hold at no earlier timestamp of the
\* series
C20_EarliestAccepted ==
    HostHigh =>
        /\ results.host.timestamp \in Onsets
        /\ AcceptedAt(results.host.timestamp)
        /\ \A s \in Onsets : s < results.host.timestamp => ~AcceptedAt(s)

\* C20 witness: a start was detected after rows that were scanned and
\* rejected, and a later row would have been accepted too
C20_Witness ==
    /\ HostHigh
    /\ results.host.timestamp > series[1].time
    /\ \E s \in Onsets : s > results.host.timestamp /\ AcceptedAt(s)

(***************************************************************************)
(* Properties of what task2 and task3 derive from a start (SpecPipe)       *)
(***************************************************************************)
\* the layer's entry with the same timestamp and another confidence tag
Retagged(c) == [attack_starts[layer] EXCEPT !.confidence = c]
OtherTags == Confidences \ {attack_starts[layer].confidence}

\* C18 (as claimed): a run that differs only in the confidence tag of the
\* layer's start yields a different normalized timeline and a different
\* aligned timeline (the tag is carried into them)
C18_ConfidenceCarried ==
    /\ normalized /= NoFile =>
          \A c \in OtherTags : NormalizedFile(layer, raw, Retagged(c)) /= normalized
    /\ (normalized /= NoFile /\ DoneAlign(Tol)) =>
          \A c \in OtherTags :
              AlignResult(NormalizedFile(layer, raw, Retagged(c)).rows, Tol) /= AlignedAt(Tol)

(***************************************************************************)
(* Invariants of the table and of the result of task5 (SpecT5)             *)
(***************************************************************************)
\* C21: the scan yields the full table for any two series: one entry for
\* each lag from LAG_MIN to LAG_MAX in ascending order, a void lag present
\* as an entry with r = 0 and p = 1 (no lag is dropped, nothing is raised)
C21_FullTable ==
    Done5 =>
        /\ corr5 /= None
        /\ Len(Table5) = LAG_MAX - LAG_MIN + 1
        /\ \A k \in 1..Len(Table5) : Table5[k].lag = LAG_MIN + k - 1
        /\ \A l \in Lags :
              Cardinality(PairedSeconds(layer1, layer2, l)) < 3
              => EntryAt(Table5, l).r = RZero /\ EntryAt(Table5, l).p_value = POne

\* C21 witness: an entirely null series, every lag of the table is void
C21_Witness ==
    /\ Done5
    /\ \A i \in 1..Len(layer1) : layer1[i] = NaN
    /\ NonConstantOn(layer2, 1..Len(layer2))
    /\ Len(Table5) = LAG_MAX - LAG_MIN + 1
    /\ \A l \in Lags : EntryAt(Table5, l).n_samples = 0

\* C22: optimal_lag lies in LAG_MIN .. LAG_MAX, and the entry at optimal_lag
\* has n_samples >= 3 or else optimal_r = 0 and optimal_p = 1
C22_OptimalInRangeOrVoid ==
    Done5 =>
        /\ corr5.optimal_lag \in Lags
        /\ \/ EntryAt(Table5, corr5.optimal_lag).n_samples >= 3
           \/ corr5.optimal_r = RZero /\ corr5.optimal_p = POne

\* C22 witness: the optimum is a void entry over two pairs of differing values
C22_Witness ==
    /\ Done5
    /\ EntryAt(Table5, corr5.optimal_lag).n_samples = 2
    /\ NonConstantOn(layer1, PairedSeconds(layer1, layer2, corr5.optimal_lag))
    /\ \E j, k \in PairedSeconds(layer1, layer2, corr5.optimal_lag) :
          layer2[j - corr5.optimal_lag] /= layer2[k - corr5.optimal_lag]
    /\ corr5.optimal_r = RZero

\* the coefficient over exactly the seconds paired at lag l
PairedR(l) ==
    LET P == PairedSeconds(layer1, layer2, l)
        r == PearsonR(layer1, [j \in P |-> layer2[j - l]], P)
    IN IF Cardinality(P) < 3 \/ r = RNaN THEN RZero ELSE r

\* C27: at every lag n_samples is the number of positions where both shifted
\* series hold a value, r is computed over exactly those positions, and
\* n_samples <= rows - |lag|
C27_SamplesArePairedPositions ==
    Done5 =>
        \A l \in Lags :
            /\ EntryAt(Table5, l).n_samples = Cardinality(PairedSeconds(layer1, layer2, l))
            /\ EntryAt(Table5, l).r = PairedR(l)
            /\ EntryAt(Table5, l).n_samples <= NRows - Abs(l)

\* C27 witness: an entry over three paired positions, one position of the
\* overlap dropped for a null, with a coefficient other than 0
C27_Witness ==
    /\ Done5
    /\ EntryAt(Table5, 0).n_samples >= 3
    /\ EntryAt(Table5, 0).n_samples = NRows - 1
    /\ EntryAt(Table5, 0).r /= RZero

\* C29: optimal_r and optimal_p are the r and p_value of the table entry
\* whose lag is optimal_lag, and the interpretation is interpret_lag of that
\* lag and the pair's two layers in table order
C29_OptimalIsTableEntry ==
    Done5 =>
        /\ corr5.optimal_lag \in Lags
        /\ corr5.optimal_r = EntryAt(Table5, corr5.optimal_lag).r
        /\ corr5.optimal_p = EntryAt(Table5, corr5.optimal_lag).p_value
        /\ corr5.interpretation = interpret_lag(corr5.optimal_lag, pair[1], pair[2])

\* C29 witness: a negative optimal coefficient at a lag other than 0
C29_Witness ==
    /\ Done5
    /\ corr5.optimal_lag /= 0
    /\ corr5.optimal_r.num < 0

(***************************************************************************)
(* Invariants of the aligned and of the normalized timelines               *)
(***************************************************************************)
\* C23: an aligned timeline has exactly one row for each relative second
\* 0, 1, ..., MaxT (60 in the script) in ascending order, whether or not the
\* layer has a sample near the second
C23_OneRowPerSecond ==
    \A tol2 \in Tolerances :
        DoneAlign(tol2) =>
            /\ Len(AlignedAt(tol2).time_rel) = MaxT + 1
            /\ Len(AlignedAt(tol2).cells) = MaxT + 1
            /\ \A k \in 1..Len(AlignedAt(tol2).time_rel) :
                  AlignedAt(tol2).time_rel[k] = k - 1

\* C23 witness: some seconds of the timeline hold a value and some are null
C23_Witness ==
    /\ DoneAlign(Tol)
    /\ \E k \in 1..Len(AlignedAt(Tol).cells) : AlignedAt(Tol).cells[k] = NaNQ
    /\ \E k \in 1..Len(AlignedAt(Tol).cells) : AlignedAt(Tol).cells[k] /= NaNQ
    /\ AlignedAt(Tol).cells[1] = NaNQ

\* the raw samples of the layer that task2 puts on second s: their time
\* relative to the attack start lies in 0..duration and rounds to s
RawStart == attack_starts[layer].timestamp
RawOnSecond(s) ==
    {i \in 1..Len(raw) : /\ raw[i].v /= NaNQ
                         /\ raw[i].t2 - 2 * RawStart >= 0
                         /\ raw[i].t2 - 2 * RawStart <= 2 * duration
                         /\ RoundHalfEven(raw[i].t2 - 2 * RawStart) = s}
RawValues == [i \in 1..Len(raw) |-> IF raw[i].v = NaNQ THEN 0 ELSE raw[i].v[1]]

\* C24 (as claimed): for each of host, network and power, the value task2
\* writes for a second on which samples fall is the arithmetic mean of
\* those samples
C24_SameSecondMean ==
    normalized /= NoFile =>
        \A s \in 0..duration :
            RawOnSecond(s) /= {} =>
                IsFraction(normalized.rows[s + 1].v,
                           SumAt(RawValues, RawOnSecond(s)),
                           Cardinality(RawOnSecond(s)))

\* C24 for host and power alone, where it holds
C24_HostPowerMean == layer /= "network" => C24_SameSecondMean

\* two samples of different value on one second, written as their mean
C24_HostPowerWitness ==
    /\ layer /= "network"
    /\ normalized /= NoFile
    /\ \E s \in 0..duration :
          /\ Cardinality(RawOnSecond(s)) = 2
          /\ normalized.rows[s + 1].v = <<1, 2>>

(***************************************************************************)
(* Properties of a pipeline run (SpecRun)                                  *)
(***************************************************************************)
Task3Ran == ran = <<"task2", "task3">>
\* task2 of this run wrote the layer's file
WrittenThisRun ==
    /\ attack_starts[layer] /= None
    /\ Len(ScenarioWindow(TimeRel(raw, attack_starts[layer].timestamp))) > 0

\* C26 (as claimed): for any outcome of task1, the normalized timeline that
\* task3 reads was written by task2 of the same run, so task3 neither fails
\* on a missing file nor aligns a file of an earlier run
C26_ReadsOwnRun ==
    Task3Ran =>
        /\ WrittenThisRun
        /\ AlignedAt(Tol) /= FileNotFoundError
        /\ AlignedAt(Tol) = AlignResult(NormalizedFile(layer, raw, attack_starts[layer]).rows, Tol)

\* what holds: when task2 of the run wrote the file, task3 aligns that file
C26_OwnFileWhenWritten ==
    (Task3Ran /\ WrittenThisRun) =>
        AlignedAt(Tol) = AlignResult(NormalizedFile(layer, raw, attack_starts[layer]).rows, Tol)

\* task3 aligned the file of an earlier run although task1 found no start
C26_StaleWitness ==
    /\ Task3Ran
    /\ attack_starts[layer] = None
    /\ AlignedAt(Tol) /= FileNotFoundError
\* task3 failed on the file task2 did not write
C26_MissingWitness ==
    /\ Task3Ran
    /\ ~WrittenThisRun
    /\ AlignedAt(Tol) = FileNotFoundError

(***************************************************************************)
(* Properties of the analysis units (SpecUnits)                            *)
(***************************************************************************)
LoopEnded == analysis.status \in {"done", "break"}
\* task1 does not replace a missing cpu column by another column
NoOtherColumn ==
    host_key_feature /= NotRun =>
        host_key_feature.feature \in CpuColumns
\* force_timeline_generation puts no value on a second without rows
NoZeroFill ==
    host_timeline /= NotRun =>
        \A k \in 1..Len(host_timeline.rows) :
            Len(BinWindow(raw, host_timeline.rows[k].time)) = 0
            => host_timeline.rows[k].value = NaNQ
\* taskA1 analyses every incident whose two files exist, and no other
UnitsStillRun ==
    LoopEnded =>
        \A i \in 1..Len(incidents) :
            (host_file /\ incidents[i] = "result") <=>
                (\E k \in 1..Len(analysis.results) : analysis.results[k] = i)

\* C25 (as claimed): a unit whose required column or file is absent is
\* aborted and produces no result, nothing is substituted for the missing
\* data (another column, a zero), and the other units still run
C25_MissingInputAborts == NoOtherColumn /\ NoZeroFill /\ UnitsStillRun

\* the part that holds: the incident loop skips exactly the incidents with
\* a missing file
C25_LoopSkipsOnlyMissing == UnitsStillRun
C25_LoopWitness ==
    /\ LoopEnded
    /\ host_file
    /\ incidents[1] = "missing"
    /\ analysis.results = <<2>>

\* the seconds before s on which task2 finds a value
PresentBefore(s) == {p \in 0..(s - 1) : RawOnSecond(p) /= {}}
LastPresent(s) == CHOOSE p \in PresentBefore(s) : \A q \in PresentBefore(s) : q <= p

\* C28: in the host and power timelines a second without a value holds the
\* last present value when that lies at most 5 seconds back, and null
\* otherwise (so also before the first present second); in the network
\* timeline a second without samples holds 0 and no cell is null
C28_FillRules ==
    normalized /= NoFile =>
        \A s \in 0..duration :
            LET cell == normalized.rows[s + 1].v
            IN IF layer = "network"
               THEN /\ cell /= NaNQ
                    /\ RawOnSecond(s) = {} => cell = Q(0)
               ELSE RawOnSecond(s) = {} =>
                      IF PresentBefore(s) = {} THEN cell = NaNQ
                      ELSE IF s - LastPresent(s) <= 5
                           THEN cell = normalized.rows[LastPresent(s) + 1].v
                           ELSE cell = NaNQ

\* C28 witness: a host or power layer with its only value on second 0; the
\* seconds 1..5 repeat it and second 6 stays null
C28_Witness ==
    /\ layer /= "network"
    /\ normalized /= NoFile
    /\ RawOnSecond(0) /= {}
    /\ \A s \in 1..6 : RawOnSecond(s) = {}
    /\ normalized.rows[1].v = Q(1)
    /\ normalized.rows[5 + 1].v = Q(1)
    /\ normalized.rows[6 + 1].v = NaNQ

\* the values of the normalized timeline at the whole seconds near t
NearSeconds(t) ==
    {s \in 0..duration : s >= t - 2 /\ s <= t + 2 /\ normalized.rows[s + 1].v /= NaNQ}
RECURSIVE QSum(_, _)
QSum(cells, S) ==
    IF S = {} THEN Q(0)
    ELSE LET s == CHOOSE x \in S : TRUE
         IN QAdd(cells[s + 1].v, QSum(cells, S \ {s}))

\* C30: on a timeline written by task2, the aligned value at second t is
\* the mean of the non-null values at the seconds max(0, t - 2) ..
\* min(duration, t + 2), and null only when all of them are null
C30_FivePointMean ==
    (normalized /= NoFile /\ DoneAlign(Tol)) =>
        \A t \in TIME_RANGE :
            LET cell == AlignedAt(Tol).cells[t + 1]
                near == NearSeconds(t)
            IN IF near = {} THEN cell = NaNQ
               ELSE cell = QDivInt(QSum(normalized.rows, near), Cardinality(near))

\* C30 witness: second 4 averages the seconds 2..6 of a timeline that holds
\* 1, 1, 0, 0, 0 there, and second 0 averages the seconds 0..2 only
C30_Witness ==
    /\ normalized /= NoFile
    /\ DoneAlign(Tol)
    /\ layer = "host"
    /\ normalized.rows[1].v = Q(1)
    /\ normalized.rows[3 + 1].v = Q(1)
    /\ normalized.rows[4 + 1].v = Q(0)
    /\ normalized.rows[6 + 1].v = Q(0)
    /\ AlignedAt(Tol).cells[4 + 1] = <<2, 5>>
    /\ AlignedAt(Tol).cells[0 + 1] = Q(1)
    /\ AlignedAt(Tol).cells[6 + 1] = <<0, 1>>

====
